---- MODULE Spec2Model ----
(***************************************************************************)
(* Model of src/src/desktop_cube.c: main(), initialize(), main_loop(),     *)
(* update_rotation_angles(), cleanup() and signal_handler().               *)
(*                                                                         *)
(* Conventions                                                             *)
(*   - handles and pointers are 0 (NULL / None) or 1 (a valid handle);     *)
(*   - rotation angles are kept in units of half a degree (every value the *)
(*     program produces is a multiple of 0.5f below 360.5f, which float    *)
(*     represents exactly, so the float arithmetic is exact);              *)
(*   - C's int is 32 bits wide; TLC's integers are 32 bits as well, so the *)
(*     64-bit intermediate of the frame time is computed in 16-bit limbs;  *)
(*   - the loop index i is 1-based here (C: 0-based).                      *)
(***************************************************************************)
EXTENDS Integers, Sequences, FiniteSets, TLC

----------------------------------------------------------------------------
(* Bounds of the model *)
MaxScreens == 2
MaxFrames == 2
MaxSteps == 725

----------------------------------------------------------------------------
(* Program constants *)
NULL == 0
SIGINT == 2
SIGTERM == 15
EXIT_SUCCESS == 0
EXIT_FAILURE == 1
TARGET_FPS == 60
TARGET_FRAME_DURATION == 1000000 \div TARGET_FPS
ROTATION_STEP == 1
FULL_TURN == 720

----------------------------------------------------------------------------
(* Environment: what the X server and the clock can hand to the program *)

\* Monitor rectangles XineramaQueryScreens can report.
Regions ==
    { [x_org |-> 0,    y_org |-> 0, width |-> 1920, height |-> 1080],
      [x_org |-> 1920, y_org |-> 0, width |-> 1920, height |-> 1080],
      [x_org |-> 3840, y_org |-> 0, width |-> 2560, height |-> 1440] }

\* The enumerations of 1..MaxScreens distinct monitors, in any order.
ScreenLists ==
    UNION { { s \in [1..n -> Regions] :
                \A a, b \in 1..n : a # b => s[a] # s[b] } : n \in 1..MaxScreens }

\* CLOCK_MONOTONIC readings at the start of a frame.
StartTimes ==
    { [tv_sec |-> 5, tv_nsec |-> 0], [tv_sec |-> 5, tv_nsec |-> 999990000] }

\* Time a frame's work can take: 10 us, just under / exactly the budget, and
\* a stall of 2148 s (process stopped, display blocked).
FrameWork ==
    { [sec |-> 0, usec |-> 10], [sec |-> 0, usec |-> 16665],
      [sec |-> 0, usec |-> 16666], [sec |-> 2148, usec |-> 0] }

AddTime(t, d) ==
    LET ns == t.tv_nsec + d.usec * 1000
    IN  IF ns >= 1000000000
        THEN [tv_sec |-> t.tv_sec + d.sec + 1, tv_nsec |-> ns - 1000000000]
        ELSE [tv_sec |-> t.tv_sec + d.sec, tv_nsec |-> ns]

NoTime == [tv_sec |-> 0, tv_nsec |-> 0]

----------------------------------------------------------------------------
VARIABLES
    pc,                \* position of main()
    terminate,         \* volatile sig_atomic_t terminate
    handlers,          \* signals whose handler is signal_handler
    app_data,          \* AppData app_data
    init_rc,           \* value returned by initialize()
    monitors,          \* the monitor list the X server reports
    acquired,          \* resources handed out, in order of acquisition
    released,          \* release calls received, in order
    window_geom,       \* geometry passed to XCreateWindow, <<>> before
    rotation_angle_x,  \* in half degrees
    rotation_angle_y,  \* in half degrees
    i,                 \* loop index of the draw loop
    gl_log,            \* calls issued in the current (or last) frame
    frames,            \* frames started
    steps,             \* calls of update_rotation_angles
    start_time,
    end_time,
    slept,             \* <<>> or <<argument of usleep>> in this frame
    cleanup_calls,
    exit_status,       \* <<>> while running, <<status>> after exit()
    loop,              \* "idle", "running", "stopped"
    sig_phase,         \* where main() was when the first signal arrived
    failed_step        \* the step of initialize() that failed, or "none"

vars == << pc, terminate, handlers, app_data, init_rc, monitors, acquired,
           released, window_geom, rotation_angle_x, rotation_angle_y, i,
           gl_log, frames, steps, start_time, end_time, slept,
           cleanup_calls, exit_status, loop, sig_phase, failed_step >>

----------------------------------------------------------------------------
(* AppData app_data = {0}; *)
ZeroAppData ==
    [ display |-> NULL, window |-> NULL, screen_info |-> NULL,
      visual_info |-> NULL, glx_context |-> NULL, color_map |-> NULL,
      vertex_buffer |-> NULL, index_buffer |-> NULL, color_buffer |-> NULL,
      num_screens |-> 0 ]

Init ==
    /\ pc = "signal_SIGINT"
    /\ terminate = 0
    /\ handlers = {}
    /\ app_data = ZeroAppData
    /\ init_rc = 0
    /\ monitors \in ScreenLists
    /\ acquired = <<>>
    /\ released = <<>>
    /\ window_geom = <<>>
    /\ rotation_angle_x = 0
    /\ rotation_angle_y = 0
    /\ i = 1
    /\ gl_log = <<>>
    /\ frames = 0
    /\ steps = 0
    /\ start_time = NoTime
    /\ end_time = NoTime
    /\ slept = <<>>
    /\ cleanup_calls = 0
    /\ exit_status = <<>>
    /\ loop = "idle"
    /\ sig_phase = "none"
    /\ failed_step = "none"

----------------------------------------------------------------------------
(* signal_handler *)

signal_handler_toggle(signum, t) ==
    IF signum = SIGINT \/ signum = SIGTERM THEN 1 - t ELSE t

\* The value of terminate after signal_handler(signum) ran with terminate = t.
signal_handler(signum, t) ==
    IF signum = SIGINT \/ signum = SIGTERM THEN 1 ELSE t

\* Where main() is, as far as a signal's effect on the loop is concerned.
Phase ==
    IF loop = "idle" THEN "init"
    ELSE IF loop = "stopped" THEN "after"
    ELSE IF pc = "loop_check" THEN "check"
    ELSE "frame"

\* Asynchronous delivery of a signal whose handler main() has installed.
Signal(signum) ==
    /\ signum \in handlers
    /\ exit_status = <<>>
    /\ terminate' = signal_handler(signum, terminate)
    /\ sig_phase' = IF sig_phase = "none" THEN Phase ELSE sig_phase
    /\ UNCHANGED << pc, handlers, app_data, init_rc, monitors, acquired,
                    released, window_geom, rotation_angle_x, rotation_angle_y,
                    i, gl_log, frames, steps, start_time, end_time, slept,
                    cleanup_calls, exit_status, loop, failed_step >>

----------------------------------------------------------------------------
(* main: signal(SIGINT, ...); signal(SIGTERM, ...); *)

mainVars == << terminate, sig_phase, monitors >>
loopVars == << rotation_angle_x, rotation_angle_y, i, gl_log, frames, steps,
               start_time, end_time, slept >>
initVars == << app_data, init_rc, acquired, window_geom, failed_step >>
exitVars == << released, cleanup_calls, exit_status >>

RegisterSIGINT ==
    /\ pc = "signal_SIGINT"
    /\ handlers' = handlers \cup {SIGINT}
    /\ pc' = "signal_SIGTERM"
    /\ UNCHANGED << mainVars, loopVars, initVars, exitVars, loop >>

RegisterSIGTERM ==
    /\ pc = "signal_SIGTERM"
    /\ handlers' = handlers \cup {SIGTERM}
    /\ pc' = "XOpenDisplay"
    /\ UNCHANGED << mainVars, loopVars, initVars, exitVars, loop >>

----------------------------------------------------------------------------
(* initialize *)

\* A step of initialize() fails: the field stays NULL and -1 is returned.
InitFail(step, field) ==
    /\ app_data' = IF field = "" THEN app_data
                   ELSE [app_data EXCEPT ![field] = NULL]
    /\ failed_step' = step
    /\ init_rc' = -1
    /\ pc' = "init_return"
    /\ UNCHANGED << acquired, window_geom >>

\* A step succeeds: the field holds the new handle; go on with the next step.
InitOk(field, next) ==
    /\ app_data' = [app_data EXCEPT ![field] = 1]
    /\ acquired' = Append(acquired, field)
    /\ pc' = next
    /\ UNCHANGED << failed_step, init_rc >>

InitOpenDisplay ==
    /\ pc = "XOpenDisplay"
    /\ \/ InitOk("display", "XineramaQueryScreens") /\ UNCHANGED window_geom
       \/ InitFail("XOpenDisplay", "display")
    /\ UNCHANGED << mainVars, loopVars, exitVars, handlers, loop >>

InitQueryScreens ==
    /\ pc = "XineramaQueryScreens"
    /\ \/ /\ app_data' = [app_data EXCEPT !.screen_info = 1,
                                          !.num_screens = Len(monitors)]
          /\ acquired' = Append(acquired, "screen_info")
          /\ pc' = "glXChooseVisual"
          /\ UNCHANGED << failed_step, init_rc, window_geom >>
       \/ InitFail("XineramaQueryScreens", "screen_info")
    /\ UNCHANGED << mainVars, loopVars, exitVars, handlers, loop >>

InitChooseVisual ==
    /\ pc = "glXChooseVisual"
    /\ \/ InitOk("visual_info", "XCreateColormap") /\ UNCHANGED window_geom
       \/ InitFail("glXChooseVisual", "visual_info")
    /\ UNCHANGED << mainVars, loopVars, exitVars, handlers, loop >>

InitCreateColormap ==
    /\ pc = "XCreateColormap"
    /\ \/ InitOk("color_map", "XCreateWindow") /\ UNCHANGED window_geom
       \/ InitFail("XCreateColormap", "color_map")
    /\ UNCHANGED << mainVars, loopVars, exitVars, handlers, loop >>

RECURSIVE combined_width(_, _)
\* combined_width after the first n iterations of the loop over the screens.
combined_width(screen_info, n) ==
    IF n = 0 THEN 0
    ELSE combined_width(screen_info, n - 1) + screen_info[n].width

RECURSIVE combined_height(_, _)
\* combined_height after the first n iterations of the loop over the screens.
combined_height(screen_info, n) ==
    IF n = 0 THEN 0
    ELSE LET h == combined_height(screen_info, n - 1)
         IN  h + (IF screen_info[n].height > h THEN screen_info[n].height ELSE 0)

InitCreateWindow ==
    /\ pc = "XCreateWindow"
    /\ \/ /\ InitOk("window", "glXCreateContext")
          /\ window_geom' =
                << [x |-> 0, y |-> 0,
                    width  |-> combined_width(monitors, app_data.num_screens),
                    height |-> combined_height(monitors, app_data.num_screens)] >>
       \/ InitFail("XCreateWindow", "window")
    /\ UNCHANGED << mainVars, loopVars, exitVars, handlers, loop >>

InitCreateContext ==
    /\ pc = "glXCreateContext"
    /\ \/ InitOk("glx_context", "glewInit") /\ UNCHANGED window_geom
       \/ InitFail("glXCreateContext", "glx_context")
    /\ UNCHANGED << mainVars, loopVars, exitVars, handlers, loop >>

InitGlew ==
    /\ pc = "glewInit"
    /\ \/ /\ pc' = "glGenBuffers"
          /\ UNCHANGED << initVars >>
       \/ InitFail("glewInit", "")
    /\ UNCHANGED << mainVars, loopVars, exitVars, handlers, loop >>

\* The three glGenBuffers calls and the rest of initialize(); returns 0.
InitBuffers ==
    /\ pc = "glGenBuffers"
    /\ app_data' = [app_data EXCEPT !.vertex_buffer = 1, !.index_buffer = 1,
                                    !.color_buffer = 1]
    /\ acquired' = acquired \o << "vertex_buffer", "index_buffer", "color_buffer" >>
    /\ init_rc' = 0
    /\ pc' = "init_return"
    /\ UNCHANGED << failed_step, window_geom >>
    /\ UNCHANGED << mainVars, loopVars, exitVars, handlers, loop >>

MainAfterInit_ignore_result ==
    /\ pc = "init_return"
    /\ pc' = "loop_check" /\ loop' = "running"
    /\ UNCHANGED << mainVars, loopVars, initVars, exitVars, handlers >>

\* main: if (initialize(&app_data) != 0) { ... } main_loop(&app_data);
MainAfterInit ==
    /\ pc = "init_return"
    /\ IF init_rc # 0
       THEN pc' = "cleanup_failure" /\ loop' = loop
       ELSE pc' = "loop_check" /\ loop' = "running"
    /\ UNCHANGED << mainVars, loopVars, initVars, exitVars, handlers >>

----------------------------------------------------------------------------
(* update_rotation_angles *)

\* C's integer division and fmod: both truncate toward zero.
CDiv(a, b) == IF a >= 0 THEN a \div b ELSE -((-a) \div b)

fmod(x, y) == x - CDiv(x, y) * y

update_rotation_angles_nowrap(angle_x, angle_y) ==
    << IF angle_x + ROTATION_STEP > FULL_TURN
         THEN angle_x + ROTATION_STEP - FULL_TURN ELSE angle_x + ROTATION_STEP,
       IF angle_y + ROTATION_STEP > FULL_TURN
         THEN angle_y + ROTATION_STEP - FULL_TURN ELSE angle_y + ROTATION_STEP >>

\* The new values of *angle_x and *angle_y.
update_rotation_angles(angle_x, angle_y) ==
    << fmod(angle_x + ROTATION_STEP, FULL_TURN),
       fmod(angle_y + ROTATION_STEP, FULL_TURN) >>

----------------------------------------------------------------------------
(* main_loop *)

Call(op) == [op |-> op, viewport |-> <<>>, aspect |-> <<>>]

\* while (!terminate)
LoopCheck_ignore_terminate ==
    /\ pc = "loop_check"
    /\ frames < MaxFrames
    /\ frames' = frames + 1
    /\ gl_log' = <<>>
    /\ pc' = "clock_start"
    /\ UNCHANGED << loop, rotation_angle_x, rotation_angle_y, i, steps,
                    start_time, end_time, slept >>
    /\ UNCHANGED << mainVars, initVars, exitVars, handlers >>

LoopCheck ==
    /\ pc = "loop_check"
    /\ \/ /\ terminate = 0
          /\ frames < MaxFrames
          /\ frames' = frames + 1
          /\ gl_log' = <<>>
          /\ pc' = "clock_start"
          /\ loop' = loop
       \/ /\ terminate # 0
          /\ pc' = "cleanup_success"
          /\ loop' = "stopped"
          /\ UNCHANGED << frames, gl_log >>
    /\ UNCHANGED << rotation_angle_x, rotation_angle_y, i, steps,
                    start_time, end_time, slept >>
    /\ UNCHANGED << mainVars, initVars, exitVars, handlers >>

\* clock_gettime(CLOCK_MONOTONIC, &start_time)
ClockStart ==
    /\ pc = "clock_start"
    /\ start_time' \in StartTimes
    /\ pc' = "glClear"
    /\ UNCHANGED << rotation_angle_x, rotation_angle_y, i, gl_log, frames,
                    steps, end_time, slept >>
    /\ UNCHANGED << mainVars, initVars, exitVars, handlers, loop >>

Clear ==
    /\ pc = "glClear"
    /\ gl_log' = Append(gl_log, Call("glClear"))
    /\ pc' = "update_rotation_angles"
    /\ UNCHANGED << rotation_angle_x, rotation_angle_y, i, frames, steps,
                    start_time, end_time, slept >>
    /\ UNCHANGED << mainVars, initVars, exitVars, handlers, loop >>

Rotate ==
    /\ pc = "update_rotation_angles"
    /\ LET r == update_rotation_angles(rotation_angle_x, rotation_angle_y)
       IN  rotation_angle_x' = r[1] /\ rotation_angle_y' = r[2]
    /\ steps' = steps + 1
    /\ gl_log' = Append(gl_log, Call("update_rotation_angles"))
    /\ i' = 1
    /\ pc' = "draw"
    /\ UNCHANGED << frames, start_time, end_time, slept >>
    /\ UNCHANGED << mainVars, initVars, exitVars, handlers, loop >>

\* The calls of one pass of the loop over the screens, for screen number k.
DrawCall_first_screen(screen_info, k) ==
    [ op |-> "glDrawElements",
      viewport |-> << screen_info[1].x_org, screen_info[1].y_org,
                      screen_info[1].width, screen_info[1].height >>,
      aspect |-> << screen_info[1].width, screen_info[1].height >> ]

DrawCall(screen_info, k) ==
    [ op |-> "glDrawElements",
      viewport |-> << screen_info[k].x_org, screen_info[k].y_org,
                      screen_info[k].width, screen_info[k].height >>,
      aspect |-> << screen_info[k].width, screen_info[k].height >> ]

\* for (int i = 0; i < app_data->num_screens; i++) { ... }
DrawPass ==
    /\ pc = "draw"
    /\ IF i <= app_data.num_screens
       THEN /\ gl_log' = Append(gl_log, DrawCall(monitors, i))
            /\ i' = i + 1
            /\ pc' = pc
       ELSE /\ pc' = "glXSwapBuffers"
            /\ UNCHANGED << gl_log, i >>
    /\ UNCHANGED << rotation_angle_x, rotation_angle_y, frames, steps,
                    start_time, end_time, slept >>
    /\ UNCHANGED << mainVars, initVars, exitVars, handlers, loop >>

Swap ==
    /\ pc = "glXSwapBuffers"
    /\ gl_log' = Append(gl_log, Call("glXSwapBuffers"))
    /\ pc' = "clock_end"
    /\ UNCHANGED << rotation_angle_x, rotation_angle_y, i, frames, steps,
                    start_time, end_time, slept >>
    /\ UNCHANGED << mainVars, initVars, exitVars, handlers, loop >>

\* clock_gettime(CLOCK_MONOTONIC, &end_time)
ClockEnd ==
    /\ pc = "clock_end"
    /\ \E d \in FrameWork : end_time' = AddTime(start_time, d)
    /\ pc' = "pace"
    /\ UNCHANGED << rotation_angle_x, rotation_angle_y, i, gl_log, frames,
                    steps, start_time, slept >>
    /\ UNCHANGED << mainVars, initVars, exitVars, handlers, loop >>

\* (int)(sec * 1000000 + us): the 64-bit sum reduced to 32 bits, two's
\* complement, computed in 16-bit limbs (1000000 = 15 * 65536 + 16960).
LongToInt(sec, us) ==
    LET t  == sec * 16960 + us
        hi == (sec * 15 + (t \div 65536)) % 65536
        lo == t % 65536
    IN  IF hi >= 32768 THEN (hi - 65536) * 65536 + lo ELSE hi * 65536 + lo

\* int frame_time_elapsed = (end.tv_sec - start.tv_sec) * 1000000 +
\*                          (end.tv_nsec - start.tv_nsec) / 1000;
frame_time_elapsed(start, end) ==
    LongToInt(end.tv_sec - start.tv_sec,
              CDiv(end.tv_nsec - start.tv_nsec, 1000))

\* The argument of usleep, or <<>> when usleep is not called.
Sleep(start, end) ==
    LET time_to_sleep == TARGET_FRAME_DURATION - frame_time_elapsed(start, end)
    IN  IF time_to_sleep > 0 THEN << time_to_sleep >> ELSE <<>>

Pace ==
    /\ pc = "pace"
    /\ slept' = Sleep(start_time, end_time)
    /\ gl_log' = Append(gl_log, Call("pace"))
    /\ pc' = "XFlush"
    /\ UNCHANGED << rotation_angle_x, rotation_angle_y, i, frames, steps,
                    start_time, end_time >>
    /\ UNCHANGED << mainVars, initVars, exitVars, handlers, loop >>

\* XFlush, then the end of the loop body: the frame's locals go out of scope.
Flush ==
    /\ pc = "XFlush"
    /\ gl_log' = Append(gl_log, Call("XFlush"))
    /\ start_time' = NoTime
    /\ end_time' = NoTime
    /\ slept' = <<>>
    /\ pc' = "loop_check"
    /\ UNCHANGED << rotation_angle_x, rotation_angle_y, i, frames, steps >>
    /\ UNCHANGED << mainVars, initVars, exitVars, handlers, loop >>

----------------------------------------------------------------------------
(* cleanup *)

CleanupOrder_display_first ==
    << "display", "vertex_buffer", "index_buffer", "color_buffer", "color_map",
       "window", "glx_context", "visual_info", "screen_info" >>

\* The fields cleanup() looks at, in the order of its statements.
CleanupOrder ==
    << "vertex_buffer", "index_buffer", "color_buffer", "color_map", "window",
       "glx_context", "visual_info", "screen_info", "display" >>

IsSet(ad, f) == ad[f] # NULL

cleanup_unguarded(ad) == CleanupOrder

\* The release calls cleanup(&ad) makes, in order. The fields keep their values.
cleanup(ad) == SelectSeq(CleanupOrder, LAMBDA f : IsSet(ad, f))

\* main: cleanup(&app_data) after a failed initialize()
CleanupFailure ==
    /\ pc = "cleanup_failure"
    /\ released' = released \o cleanup(app_data)
    /\ cleanup_calls' = cleanup_calls + 1
    /\ pc' = "exit_failure"
    /\ UNCHANGED << mainVars, loopVars, initVars, handlers, loop, exit_status >>

ExitFailure ==
    /\ pc = "exit_failure"
    /\ exit_status' = << EXIT_FAILURE >>
    /\ pc' = "done"
    /\ UNCHANGED << mainVars, loopVars, initVars, handlers, loop, released,
                    cleanup_calls >>

\* main: cleanup(&app_data) after main_loop() returned
CleanupSuccess ==
    /\ pc = "cleanup_success"
    /\ released' = released \o cleanup(app_data)
    /\ cleanup_calls' = cleanup_calls + 1
    /\ pc' = "exit_success"
    /\ UNCHANGED << mainVars, loopVars, initVars, handlers, loop, exit_status >>

ExitSuccess ==
    /\ pc = "exit_success"
    /\ exit_status' = << EXIT_SUCCESS >>
    /\ pc' = "done"
    /\ UNCHANGED << mainVars, loopVars, initVars, handlers, loop, released,
                    cleanup_calls >>

----------------------------------------------------------------------------
(* The program *)

MainStep ==
    \/ RegisterSIGINT
    \/ RegisterSIGTERM
    \/ InitOpenDisplay
    \/ InitQueryScreens
    \/ InitChooseVisual
    \/ InitCreateColormap
    \/ InitCreateWindow
    \/ InitCreateContext
    \/ InitGlew
    \/ InitBuffers
    \/ MainAfterInit
    \/ LoopCheck
    \/ ClockStart
    \/ Clear
    \/ Rotate
    \/ DrawPass
    \/ Swap
    \/ ClockEnd
    \/ Pace
    \/ Flush
    \/ CleanupFailure
    \/ ExitFailure
    \/ CleanupSuccess
    \/ ExitSuccess

SignalStep == \E signum \in {SIGINT, SIGTERM} : Signal(signum)

Next == MainStep \/ SignalStep

Spec == Init /\ [][Next]_vars

\* main() is the only thread and every call it makes returns.
FairSpec == Spec /\ WF_vars(MainStep)

----------------------------------------------------------------------------
(* cleanup() called once more on the context main() already cleaned up *)

CleanupAgain ==
    /\ pc \in {"exit_failure", "exit_success"}
    /\ cleanup_calls = 1
    /\ released' = released \o cleanup(app_data)
    /\ cleanup_calls' = cleanup_calls + 1
    /\ UNCHANGED << pc, mainVars, loopVars, initVars, handlers, loop,
                    exit_status >>

NextTwice == Next \/ CleanupAgain

SpecTwice == Init /\ [][NextTwice]_vars

----------------------------------------------------------------------------
(* update_rotation_angles applied n times to the initial angles (0, 0) *)

UpdateRotation ==
    /\ steps < MaxSteps
    /\ LET r == update_rotation_angles(rotation_angle_x, rotation_angle_y)
       IN  rotation_angle_x' = r[1] /\ rotation_angle_y' = r[2]
    /\ steps' = steps + 1
    /\ UNCHANGED << pc, mainVars, initVars, exitVars, handlers, loop, i,
                    gl_log, frames, start_time, end_time, slept >>

SpecRot == Init /\ [][UpdateRotation]_vars

----------------------------------------------------------------------------
(* Vocabulary of the properties *)

Resources ==
    { "display", "screen_info", "visual_info", "color_map", "window",
      "glx_context", "vertex_buffer", "index_buffer", "color_buffer" }

Buffers == { "vertex_buffer", "index_buffer", "color_buffer" }

Elems(seq) == { seq[k] : k \in 1..Len(seq) }

Count(seq, x) == Cardinality({ k \in 1..Len(seq) : seq[k] = x })

\* Position of the first occurrence of x in seq (x occurs in seq).
Pos(seq, x) == CHOOSE k \in 1..Len(seq) :
                   seq[k] = x /\ \A j \in 1..(k - 1) : seq[j] # x

\* What initialize() has acquired when the named step fails.
AcquiredBefore(step) ==
    CASE step = "XOpenDisplay"         -> <<>>
      [] step = "XineramaQueryScreens" -> << "display" >>
      [] step = "glXChooseVisual"      -> << "display", "screen_info" >>
      [] step = "XCreateColormap"      -> << "display", "screen_info", "visual_info" >>
      [] step = "XCreateWindow"        ->
             << "display", "screen_info", "visual_info", "color_map" >>
      [] step = "glXCreateContext"     ->
             << "display", "screen_info", "visual_info", "color_map", "window" >>
      [] step = "glewInit"             ->
             << "display", "screen_info", "visual_info", "color_map", "window",
                "glx_context" >>

----------------------------------------------------------------------------
\* C1: whichever step of initialize() failed (or none, or the very first, which
\* leaves the context all zero), the single cleanup() call of main() releases
\* every acquired resource exactly once and no resource that was not acquired.
C1_CleanupReleasesWhatWasAcquired ==
    cleanup_calls = 1 =>
        \A r \in Resources :
            Count(released, r) = IF r \in Elems(acquired) THEN 1 ELSE 0

C1_Witness ==
    /\ cleanup_calls = 1
    /\ failed_step = "glewInit"
    /\ Len(released) = 6

\* C1, the zero-initialized context: XOpenDisplay failed, nothing is released.
C1_ZeroContextWitness ==
    /\ cleanup_calls = 1
    /\ app_data = ZeroAppData
    /\ released = <<>>

\* C2: a second cleanup() on the same context releases nothing, so that no
\* resource is released more than once over the two calls.
C2_SecondCleanupReleasesNothing ==
    cleanup_calls = 2 => \A r \in Resources : Count(released, r) <= 1

\* C3: the window is created at (0, 0), as wide as the sum of the monitors'
\* widths and as high as the highest monitor, whatever the enumeration order.
C3_WindowSpansSumByMax ==
    window_geom # <<>> =>
        LET N == Len(monitors)
            MaxHeight == CHOOSE h \in { monitors[k].height : k \in 1..N } :
                             \A k \in 1..N : monitors[k].height <= h
            SumWidth[k \in 0..N] ==
                IF k = 0 THEN 0 ELSE SumWidth[k - 1] + monitors[k].width
        IN  window_geom[1] =
                [x |-> 0, y |-> 0, width |-> SumWidth[N], height |-> MaxHeight]

\* C4: after n update steps from (0, 0) both angles are (0.5 * n) mod 360, lie
\* in [0, 360) and are equal (angles in half degrees: 0.5 is 1, 360 is 720).
C4_AnglesAreStepsModFullTurn ==
    /\ rotation_angle_x = (steps * ROTATION_STEP) % FULL_TURN
    /\ rotation_angle_y = (steps * ROTATION_STEP) % FULL_TURN
    /\ rotation_angle_x >= 0 /\ rotation_angle_x < FULL_TURN
    /\ rotation_angle_y >= 0 /\ rotation_angle_y < FULL_TURN
    /\ rotation_angle_x = rotation_angle_y

C4_Witness == steps = FULL_TURN + 1 /\ rotation_angle_x = 1

\* C5: a frame issues, in this order, the clear, one rotation update, one draw
\* pass per monitor in enumeration order (viewport = the monitor's rectangle,
\* aspect = its width / height), then one buffer swap, the pacing and the flush.
C5_OneDrawPassPerMonitor ==
    LET N == Len(monitors)
        Matches(k) ==
            IF k = 1 THEN gl_log[k] = Call("glClear")
            ELSE IF k = 2 THEN gl_log[k] = Call("update_rotation_angles")
            ELSE IF k <= N + 2 THEN
                LET m == monitors[k - 2]
                IN  /\ gl_log[k].op = "glDrawElements"
                    /\ gl_log[k].viewport = << m.x_org, m.y_org, m.width, m.height >>
                    /\ Len(gl_log[k].aspect) = 2
                    /\ gl_log[k].aspect[1] * m.height = gl_log[k].aspect[2] * m.width
            ELSE IF k = N + 3 THEN gl_log[k] = Call("glXSwapBuffers")
            ELSE IF k = N + 4 THEN gl_log[k] = Call("pace")
            ELSE k = N + 5 /\ gl_log[k] = Call("XFlush")
    IN  /\ \A k \in 1..Len(gl_log) : Matches(k)
        /\ pc = "glXSwapBuffers" => Len(gl_log) = N + 2
        /\ pc \in {"clock_end", "pace"} => Len(gl_log) = N + 3
        /\ (frames > 0 /\ pc \in {"loop_check", "cleanup_success", "exit_success", "done"})
               => Len(gl_log) = N + 5

C5_Witness ==
    /\ pc = "loop_check"
    /\ frames = 2
    /\ Len(monitors) = 2
    /\ Len(gl_log) = 7

\* C6: once the flag is set no further frame is started; the loop stops only
\* at the loop condition, never inside a frame; a frame that is in progress
\* when the flag is set reaches its flush with every step done; and the loop
\* eventually exits.
C6_FrameCompletesThenLoopExits ==
    /\ [][terminate = 1 => frames' = frames]_vars
    /\ [][(loop = "running" /\ pc # "loop_check") => loop' = "running"]_vars
    /\ [][(terminate = 1 /\ pc = "XFlush" /\ pc' # pc)
             => (pc' = "loop_check" /\ Len(gl_log') = Len(monitors) + 5)]_vars
    /\ ((terminate = 1 /\ loop = "running") ~> (loop = "stopped"))

C6_Witness ==
    /\ sig_phase = "frame"
    /\ terminate = 1
    /\ loop = "stopped"
    /\ frames = 1
    /\ Len(gl_log) = Len(monitors) + 5

\* C7: with elapsed the microseconds between the frame's two timestamps, the
\* loop sleeps budget - elapsed when elapsed < budget and does not sleep
\* otherwise; every frame takes exactly one rotation step.
C7_SleepsTheRemainderOrNotAtAll ==
    /\ pc = "XFlush" =>
          LET ds == end_time.tv_sec - start_time.tv_sec
              dus == (end_time.tv_nsec - start_time.tv_nsec) \div 1000
              below == ds <= 2 /\ ds * 1000000 + dus < TARGET_FRAME_DURATION
          IN  IF below
              THEN slept = << TARGET_FRAME_DURATION - (ds * 1000000 + dus) >>
              ELSE slept = <<>>
    /\ steps = IF pc \in {"clock_start", "glClear", "update_rotation_angles"}
               THEN frames - 1 ELSE frames

\* C8: a failed step ends initialize() at once (nothing later is acquired) with
\* a failure result; then the loop is never entered, cleanup() runs once and the
\* exit status is nonzero. Status 0 only after a successful initialize(), an
\* exited loop and exactly one cleanup().
C8_InitFailureAborts ==
    /\ failed_step # "none" =>
          /\ acquired = AcquiredBefore(failed_step)
          /\ init_rc # 0
          /\ loop = "idle" /\ frames = 0
    /\ (failed_step # "none" /\ pc = "done") =>
          /\ cleanup_calls = 1
          /\ Len(exit_status) = 1 /\ exit_status[1] # 0
    /\ exit_status = << 0 >> =>
          /\ failed_step = "none"
          /\ Elems(acquired) = Resources
          /\ loop = "stopped"
          /\ cleanup_calls = 1
    /\ cleanup_calls <= 1

C8_Witness ==
    /\ pc = "done"
    /\ failed_step = "XCreateColormap"
    /\ exit_status = << EXIT_FAILURE >>
    /\ cleanup_calls = 1

\* C9 as stated: of any two resources cleanup() releases (the three GPU buffers
\* counting as one), the one acquired later is released first.
C9_ReverseAcquisitionOrder ==
    cleanup_calls = 1 =>
        \A a, b \in Elems(released) :
            (Pos(acquired, a) < Pos(acquired, b) /\ ~({a, b} \subseteq Buffers))
                => Pos(released, b) < Pos(released, a)

\* C9 as amended: cleanup() releases in reverse acquisition order except that
\* color map, window and GLX context are released in that (their acquisition)
\* order, as are the three GPU buffers; the display connection is released last.
C9_ReverseExceptColormapWindowContext ==
    cleanup_calls = 1 =>
        /\ \A a, b \in Elems(released) :
              Pos(acquired, a) < Pos(acquired, b) =>
                  IF \/ {a, b} \subseteq {"color_map", "window", "glx_context"}
                     \/ {a, b} \subseteq Buffers
                  THEN Pos(released, a) < Pos(released, b)
                  ELSE Pos(released, b) < Pos(released, a)
        /\ "display" \in Elems(released) => released[Len(released)] = "display"

C9_Witness ==
    /\ cleanup_calls = 1
    /\ Len(released) = 9
    /\ Pos(released, "color_map") < Pos(released, "window")

\* C10: terminate changes only in the signal handler, to 1, and never back to
\* 0; a signal that arrives before the loop's first check does not stop
\* initialize(), and when initialize() succeeds the loop renders no frame,
\* cleanup() runs once and the exit status is 0.
C10_TerminateOnlySetBySignal ==
    /\ [][terminate' # terminate => (SignalStep /\ terminate' = 1)]_vars
    /\ [][terminate = 1 => terminate' = 1]_vars
    /\ [][(sig_phase = "init" /\ loop = "idle" /\ pc' # pc) => MainStep]_vars
    /\ []((sig_phase = "init" /\ failed_step = "none" /\ pc = "done") =>
             /\ Elems(acquired) = Resources
             /\ frames = 0
             /\ cleanup_calls = 1
             /\ exit_status = << EXIT_SUCCESS >>)
    /\ ((sig_phase = "init") ~> (pc = "done"))

C10_Witness ==
    /\ sig_phase = "init"
    /\ failed_step = "none"
    /\ pc = "done"
    /\ frames = 0
    /\ exit_status = << EXIT_SUCCESS >>

====
